---- MODULE Spec2Model ----
(***************************************************************************)
(* Verification model of the billboard pricing service                     *)
(* (src/src/services/enhancedPricingService.ts, class                      *)
(* EnhancedPricingService, second complete copy at lines 254-1065) and of  *)
(* the bulk exchange of the pricing data manager (src/unnamed/part_000).   *)
(*                                                                         *)
(* Strings are sequences of one-character strings, so that split, trim     *)
(* and parseInt are computed character by character as JavaScript does.    *)
(* The Arabic column names of the source are written with ASCII stand-ins: *)
(*   size = al-maqas, level = al-mustawa, customerType = al-zabun,         *)
(*   oneMonth, twoMonths, threeMonths, sixMonths, oneYear, oneDay, id.     *)
(* A row (PricingRow) is a function from column names to values; an        *)
(* optional field that is undefined or null is a name missing from the     *)
(* row's DOMAIN.                                                           *)
(***************************************************************************)
EXTENDS Integers, Sequences, FiniteSets, TLC

(***************************************************************************)
(* Column names (PricingRow, lines 261-272)                                *)
(***************************************************************************)
sizeCol         == <<"s", "i", "z", "e">>
levelCol        == <<"l", "e", "v", "e", "l">>
customerTypeCol == <<"c", "u", "s", "t">>
oneMonth        == <<"1", "m">>
twoMonths       == <<"2", " ", "m">>
threeMonths     == <<"3", " ", "m">>
sixMonths       == <<"6", " ", "m">>
oneYear         == <<"y", "r">>
oneDay          == <<"1", "d">>
idCol           == <<"i", "d">>

\* the six duration-price columns, as listed at line 958
PriceColumns == {oneMonth, twoMonths, threeMonths, sixMonths, oneYear, oneDay}

\* the columns of table pricing_ar
Columns == {sizeCol, levelCol, customerTypeCol, idCol} \cup PriceColumns

(***************************************************************************)
(* JavaScript string primitives                                            *)
(***************************************************************************)
\* the value of a missing array element / object property, as a string
Undefined == <<"undefined">>

WhiteSpace == {" ", "\n", "\r", "\t"}

RECURSIVE trimStart(_)
trimStart(s) ==
  IF s # <<>> /\ Head(s) \in WhiteSpace THEN trimStart(Tail(s)) ELSE s

RECURSIVE trimEnd(_)
trimEnd(s) ==
  IF s # <<>> /\ s[Len(s)] \in WhiteSpace
  THEN trimEnd(SubSeq(s, 1, Len(s) - 1))
  ELSE s

\* String.prototype.trim
trim(s) == trimEnd(trimStart(s))

\* String.prototype.split(sep) for a one-character separator
RECURSIVE split(_, _)
split(s, sep) ==
  IF \E i \in 1..Len(s) : s[i] = sep
  THEN LET i == CHOOSE k \in 1..Len(s) :
                  s[k] = sep /\ \A j \in 1..(k - 1) : s[j] # sep
       IN  <<SubSeq(s, 1, i - 1)>> \o split(SubSeq(s, i + 1, Len(s)), sep)
  ELSE <<s>>

\* Array.prototype.join(sep), the elements and sep being strings
RECURSIVE join(_, _)
join(parts, sep) ==
  IF parts = <<>> THEN <<>>
  ELSE IF Len(parts) = 1 THEN parts[1]
  ELSE parts[1] \o sep \o join(Tail(parts), sep)

DigitChars == <<"0", "1", "2", "3", "4", "5", "6", "7", "8", "9">>

IsDigit(c) == \E i \in 1..10 : DigitChars[i] = c

DigitVal(c) == (CHOOSE i \in 1..10 : DigitChars[i] = c) - 1

\* the value of the longest prefix of digits of s, read left to right
RECURSIVE digitsValue(_, _)
digitsValue(s, acc) ==
  IF s # <<>> /\ IsDigit(Head(s))
  THEN digitsValue(Tail(s), 10 * acc + DigitVal(Head(s)))
  ELSE acc

\* parseInt(value), radix 10: leading white space is skipped, one sign is
\* accepted, the digits up to the first other character are read; NaN when
\* no digit is found there.  The result is [nan |-> BOOLEAN, n |-> Int].
parseInt(value) ==
  LET t    == trimStart(value)
      neg  == t # <<>> /\ Head(t) = "-"
      body == IF t # <<>> /\ Head(t) \in {"-", "+"} THEN Tail(t) ELSE t
  IN  IF body # <<>> /\ IsDigit(Head(body))
      THEN [nan |-> FALSE,
            n   |-> IF neg THEN 0 - digitsValue(body, 0) ELSE digitsValue(body, 0)]
      ELSE [nan |-> TRUE, n |-> 0]

\* JavaScript truthiness of a parseInt result: NaN and 0 are falsy
Truthy(p) == ~p.nan /\ p.n # 0

(***************************************************************************)
(* Bulk import: the parse of updatePricingData (lines 945-968)             *)
(***************************************************************************)
\* row[k] = v
Put(row, k, v) == [c \in (DOMAIN row) \cup {k} |-> IF c = k THEN v ELSE row[c]]

\* row[k] = undefined
Del(row, k) == [c \in (DOMAIN row) \ {k} |-> row[c]]

\* {}
EmptyRow == [c \in {} |-> 0]

\* values[index]?.trim()  (line 955)
Cell(values, index) ==
  IF index <= Len(values) THEN trim(values[index]) ELSE Undefined

\* one turn of the headers.forEach callback (lines 954-963)
SetField(row, header, value) ==
  IF header = idCol
  THEN IF Truthy(parseInt(value))
       THEN Put(row, idCol, parseInt(value).n)
       ELSE Del(row, idCol)
  ELSE IF header \in PriceColumns
  THEN Put(row, header, IF Truthy(parseInt(value)) THEN parseInt(value).n ELSE 0)
  ELSE Put(row, header, IF value = Undefined THEN <<>> ELSE value)

\* headers.forEach over the first index-1 headers done, the rest to do
RECURSIVE BuildRow(_, _, _, _)
BuildRow(headers, values, index, row) ==
  IF index > Len(headers) THEN row
  ELSE BuildRow(headers, values, index + 1,
                SetField(row, headers[index], Cell(values, index)))

\* Accepted gone wrong: one of the three non-empty is enough
Accepted_AnyOf(row) ==
  \/ sizeCol \in DOMAIN row /\ row[sizeCol] # <<>>
  \/ levelCol \in DOMAIN row /\ row[levelCol] # <<>>
  \/ customerTypeCol \in DOMAIN row /\ row[customerTypeCol] # <<>>

\* row.size && row.level && row.customerType  (line 965)
Accepted(row) ==
  /\ sizeCol \in DOMAIN row /\ row[sizeCol] # <<>>
  /\ levelCol \in DOMAIN row /\ row[levelCol] # <<>>
  /\ customerTypeCol \in DOMAIN row /\ row[customerTypeCol] # <<>>

\* the row built from data line `line` under `headers` (lines 951-963)
LineRow(headers, line) == BuildRow(headers, split(line, ","), 1, EmptyRow)

\* the for loop of lines 950-968 from line i on
RECURSIVE ParseLines(_, _, _)
ParseLines(headers, lines, i) ==
  IF i > Len(lines) THEN <<>>
  ELSE LET row == LineRow(headers, lines[i])
       IN  (IF Accepted(row) THEN <<row>> ELSE <<>>)
             \o ParseLines(headers, lines, i + 1)

\* rows of updatePricingData(csvData) before the store is touched
ParseCSV(csvData) ==
  LET lines   == split(trim(csvData), "\n")
      headers == split(lines[1], ",")
  IN  ParseLines(headers, lines, 2)

(***************************************************************************)
(* Values of the model                                                     *)
(***************************************************************************)
s13x5  == <<"1", "3", "x", "5">>
s12x4  == <<"1", "2", "x", "4">>
levelA == <<"A">>
levelB == <<"B">>
\* CustomerType (line 258): the standard customer and the marketer
std    == <<"s", "t", "d">>
mkt    == <<"m", "k", "t">>

\* a row with its three keys
KeyRow(size, level, customerType) ==
  (sizeCol :> size) @@ (levelCol :> level) @@ (customerTypeCol :> customerType)

\* getFallbackData (lines 1035-1062)
getFallbackData ==
  << KeyRow(s13x5, levelA, std) @@ (idCol :> 1) @@ (oneMonth :> 24000)
       @@ (twoMonths :> 23000) @@ (threeMonths :> 22000) @@ (sixMonths :> 21000)
       @@ (oneYear :> 20000) @@ (oneDay :> 800),
     KeyRow(s12x4, levelA, std) @@ (idCol :> 2) @@ (oneMonth :> 21000)
       @@ (twoMonths :> 20000) @@ (threeMonths :> 19000) @@ (sixMonths :> 18000)
       @@ (oneYear :> 17000) @@ (oneDay :> 700) >>

\* The rows of pricing_ar when the program starts: two rows of one
\* (size, level, customerType), the first without a one-day price (NULL).
InitialTable ==
  << KeyRow(s13x5, levelA, std) @@ (idCol :> 1) @@ (oneMonth :> 100),
     KeyRow(s13x5, levelA, std) @@ (idCol :> 2) @@ (oneMonth :> 200)
       @@ (oneDay :> 9) >>

\* arguments of findPriceForBillboard (lines 381-386)
Query(size, level, customerType, pricingKey) ==
  [size |-> size, level |-> level, customerType |-> customerType,
   pricingKey |-> pricingKey]

NoQuery == Query(<<>>, <<>>, <<>>, <<>>)

\* the (size, level, customerType) asked for: in both tables, in the
\* fallback table only, in neither
Queries ==
  {Query(t[1], t[2], t[3], k) :
     t \in {<<s13x5, levelA, std>>, <<s12x4, levelA, std>>,
            <<s12x4, levelB, std>>},
     k \in PriceColumns}

(***************************************************************************)
(* Cache helpers (lines 993-1030) over the localStorage slot CACHE_KEY.    *)
(* The slot is <<>> (getItem gives null) or <<item>>, item the text        *)
(* written by setItem.  `failing` is the set of Storage operations that    *)
(* throw at present.                                                       *)
(***************************************************************************)
\* CACHE_DURATION (line 325), in milliseconds
CACHE_DURATION == 5 * 60 * 1000

\* the order in which JSON.stringify writes the properties of a row
ColumnOrder ==
  <<idCol, sizeCol, levelCol, customerTypeCol, oneMonth, twoMonths,
    threeMonths, sixMonths, oneYear, oneDay>>

\* JSON.stringify of one row: its defined properties as name/value pairs
StringifyRow(row) ==
  LET names == SelectSeq(ColumnOrder, LAMBDA c : c \in DOMAIN row)
  IN  [i \in 1..Len(names) |-> <<names[i], row[names[i]]>>]

\* JSON.parse of one row
RECURSIVE ParseRow(_)
ParseRow(pairs) ==
  IF pairs = <<>> THEN EmptyRow
  ELSE Put(ParseRow(SubSeq(pairs, 1, Len(pairs) - 1)),
           pairs[Len(pairs)][1], pairs[Len(pairs)][2])

\* JSON.stringify({data, timestamp})  (lines 1014-1018)
JSONstringify(data, timestamp) ==
  [data |-> [i \in 1..Len(data) |-> StringifyRow(data[i])],
   timestamp |-> timestamp]

\* JSON.parse(cached)  (line 998)
JSONparse(item) ==
  [data |-> [i \in 1..Len(item.data) |-> ParseRow(item.data[i])],
   timestamp |-> item.timestamp]

\* Each helper gives the slot afterwards and whether it threw; each catches
\* what Storage throws, so none throws.

\* clearCache gone wrong: the entry is not removed
clearCache_Noop(slot, failing_) == [slot |-> slot, threw |-> FALSE]

\* clearCache (lines 1024-1030)
clearCache(slot, failing_) ==
  [slot |-> IF "removeItem" \in failing_ THEN slot ELSE <<>>, threw |-> FALSE]

\* setCachedData gone wrong: what setItem throws is not caught
setCachedData_NoCatch(slot, data, t, failing_) ==
  [slot  |-> IF "setItem" \in failing_ THEN slot
             ELSE <<JSONstringify(data, t)>>,
   threw |-> "setItem" \in failing_]

\* setCachedData (lines 1012-1022)
setCachedData(slot, data, t, failing_) ==
  [slot  |-> IF "setItem" \in failing_ THEN slot
             ELSE <<JSONstringify(data, t)>>,
   threw |-> FALSE]

\* Expired gone wrong: an entry exactly CACHE_DURATION old is too old already
Expired_AtBoundary(item, t) == t - item.timestamp >= CACHE_DURATION

\* whether getCachedData finds the entry too old (line 1001)
Expired(item, t) == t - item.timestamp > CACHE_DURATION

\* getCachedData (lines 993-1010): hit with the rows, or null (no hit); an
\* entry found too old is cleared on the way
getCachedData(slot, t, failing_) ==
  IF "getItem" \in failing_ \/ slot = <<>>
  THEN [hit |-> FALSE, data |-> <<>>, slot |-> slot, threw |-> FALSE]
  ELSE IF Expired(JSONparse(slot[1]), t)
  THEN [hit |-> FALSE, data |-> <<>>, slot |-> clearCache(slot, failing_).slot,
        threw |-> clearCache(slot, failing_).threw]
  ELSE [hit |-> TRUE, data |-> JSONparse(slot[1]).data, slot |-> slot,
        threw |-> FALSE]

(***************************************************************************)
(* Price lookup (lines 390-402)                                            *)
(***************************************************************************)
\* row[name], undefined when the row has no such property
Field(row, name) == IF name \in DOMAIN row THEN row[name] ELSE Undefined

Matches(r, q) ==
  /\ Field(r, sizeCol) = q.size
  /\ Field(r, levelCol) = q.level
  /\ Field(r, customerTypeCol) = q.customerType

\* typeof row[name] === 'number'
IsNumber(row, name) == name \in DOMAIN row /\ name \in PriceColumns \cup {idCol}

\* FindPrice gone wrong: with no matching row the first row of the table is
\* taken instead
FindPrice_NoRowFirst(pricingData, q) ==
  LET hits == {i \in 1..Len(pricingData) : Matches(pricingData[i], q)}
      at   == IF hits = {} THEN 1 ELSE CHOOSE i \in hits : \A j \in hits : i <= j
  IN  IF pricingData = <<>> THEN 0
      ELSE IF IsNumber(pricingData[at], q.pricingKey)
      THEN pricingData[at][q.pricingKey] ELSE 0

\* FindPrice gone wrong: the first matching row that has a number at the key
\* is taken, not the first matching row
FindPrice_FirstWithValue(pricingData, q) ==
  LET hits == {i \in 1..Len(pricingData) :
                 /\ Matches(pricingData[i], q)
                 /\ IsNumber(pricingData[i], q.pricingKey)}
  IN  IF hits = {} THEN 0
      ELSE pricingData[CHOOSE i \in hits : \A j \in hits : i <= j][q.pricingKey]

\* pricingData.find(...) and the two returns of lines 396-402
FindPrice(pricingData, q) ==
  LET hits == {i \in 1..Len(pricingData) : Matches(pricingData[i], q)}
  IN  IF hits = {} THEN 0
      ELSE LET row == pricingData[CHOOSE i \in hits : \A j \in hits : i <= j]
           IN  IF IsNumber(row, q.pricingKey) THEN row[q.pricingKey] ELSE 0

(***************************************************************************)
(* The backend table pricing_ar as the service uses it: read of all rows   *)
(* ordered by id (lines 341-344), delete of the rows whose id is not -1    *)
(* (line 971), insert of a batch (line 974).                               *)
(***************************************************************************)
HasId(r) == idCol \in DOMAIN r

\* .delete().neq('id', -1): what is left of the table
DeleteNeq(t) == SelectSeq(t, LAMBDA r : HasId(r) /\ r[idCol] = 0 - 1)

Ids(rows) == {rows[i][idCol] : i \in {j \in 1..Len(rows) : HasId(rows[j])}}

MaxOf(S) == IF S = {} THEN 0 ELSE CHOOSE m \in S : \A n \in S : n <= m

\* the store gives an id to each row inserted without one
RECURSIVE AssignIds(_, _)
AssignIds(rows, next) ==
  IF rows = <<>> THEN <<>>
  ELSE IF HasId(Head(rows))
  THEN <<Head(rows)>> \o AssignIds(Tail(rows), next)
  ELSE <<Put(Head(rows), idCol, next)>> \o AssignIds(Tail(rows), next + 1)

RECURSIVE SortById(_)
SortById(rows) ==
  IF rows = <<>> THEN <<>>
  ELSE LET m == CHOOSE i \in 1..Len(rows) :
                  \A j \in 1..Len(rows) : rows[i][idCol] <= rows[j][idCol]
       IN  <<rows[m]>> \o
           SortById(SubSeq(rows, 1, m - 1) \o SubSeq(rows, m + 1, Len(rows)))

\* the batch is refused as a whole: a column the table does not have, or an
\* id given twice
InsertRefused(t, rows) ==
  \/ \E i \in 1..Len(rows) : ~((DOMAIN rows[i]) \subseteq Columns)
  \/ Cardinality(Ids(t \o rows)) #
       Cardinality({i \in 1..Len(t \o rows) : HasId((t \o rows)[i])})

\* .insert(rows) accepted: the table afterwards, as a read orders it
InsertRows(t, rows) ==
  SortById(t \o AssignIds(rows, 1 + MaxOf(Ids(t \o rows) \cup {0})))

\* outcomes of one request to the backend: the awaited result carries data,
\* carries an error, or the await throws
Outcomes == {"ok", "error", "throw"}

(***************************************************************************)
(* Upload texts                                                            *)
(***************************************************************************)
COMMA == <<",">>
LF    == <<"\n">>
CRLF  == <<"\r", "\n">>

\* the header line exportToCSV writes (src/unnamed/part_000, line 87)
HeaderFull ==
  join(<<sizeCol, levelCol, customerTypeCol, oneMonth, twoMonths, threeMonths,
         sixMonths, oneYear, oneDay, idCol>>, COMMA)

\* a header line without five of the price columns
HeaderPart == join(<<sizeCol, levelCol, customerTypeCol, oneDay, idCol>>, COMMA)

LineGood ==
  join(<<s13x5, levelA, std, <<"1", "0", "0">>, <<"9", "0">>, <<"8", "0">>,
         <<"7", "0">>, <<"6", "0">>, <<"5">>, <<"7">> >>, COMMA)

\* padded cells, a number followed by letters, an empty cell, letters, a
\* negative number, zero as a price and zero as the id
LinePad ==
  join(<<<<" ">> \o s12x4 \o <<" ">>, levelB, std, <<" ", "4", "2">>,
         <<"1", "2", "a", "b", "c">>, <<>>, <<"a", "b", "c">>, <<"-", "3">>,
         <<"0">>, <<"0">> >>, COMMA)

\* no size
LineNoSize ==
  join(<<<<>>, levelA, std, <<"1">>, <<"1">>, <<"1">>, <<"1">>, <<"1">>,
         <<"1">>, <<"8">> >>, COMMA)

\* three cells only
LineShort == join(<<s13x5, levelB, mkt>>, COMMA)

LineBlank == <<>>

\* id -1
LineMinus ==
  join(<<s12x4, levelA, mkt, <<"1", "0">>, <<"0">>, <<"0">>, <<"0">>, <<"0">>,
         <<"2">>, <<"-", "1">> >>, COMMA)

\* the most data lines of an upload text
MaxLines == 2

Text(header, lines, eol) == join(<<header>> \o lines, eol)

Texts ==
  { Text(h, ls, eol) :
      h \in {HeaderFull, HeaderPart}, eol \in {LF, CRLF},
      ls \in UNION {[1..n -> {LineGood, LinePad, LineNoSize, LineShort,
                              LineBlank, LineMinus}] : n \in 0..MaxLines} }

\* the files uploaded to the running service
Uploads ==
  { Text(HeaderFull, <<LineGood, LineNoSize>>, LF),
    Text(HeaderFull, <<LineMinus, LinePad>>, LF) }

(***************************************************************************)
(* exportToCSV of the pricing data manager (src/unnamed/part_000, lines    *)
(* 86-102)                                                                 *)
(***************************************************************************)
\* the decimal digits of a natural number
RECURSIVE NatText(_)
NatText(n) ==
  IF n < 10 THEN <<DigitChars[n + 1]>>
  ELSE NatText(n \div 10) \o <<DigitChars[(n % 10) + 1]>>

\* String(n) for an integer, as Array.prototype.join writes a number
NumberText(n) == IF n < 0 THEN <<"-">> \o NatText(0 - n) ELSE NatText(n)

\* row[name] || 0 of lines 93-98, written out
PriceText(row, name) ==
  IF name \in DOMAIN row /\ row[name] # 0 THEN NumberText(row[name])
  ELSE NumberText(0)

\* row.id || '' of line 99, written out
IdText(row) ==
  IF idCol \in DOMAIN row /\ row[idCol] # 0 THEN NumberText(row[idCol])
  ELSE <<>>

\* a text field as join writes it: nothing for undefined or null
FieldText(row, name) == IF name \in DOMAIN row THEN row[name] ELSE <<>>

\* ExportLine gone wrong: the id is written before the one-day price
ExportLine_IdBeforeDay(row) ==
  join(<<FieldText(row, sizeCol), FieldText(row, levelCol),
         FieldText(row, customerTypeCol), PriceText(row, oneMonth),
         PriceText(row, twoMonths), PriceText(row, threeMonths),
         PriceText(row, sixMonths), PriceText(row, oneYear),
         IdText(row), PriceText(row, oneDay)>>, COMMA)

\* the line of one row (lines 90-100)
ExportLine(row) ==
  join(<<FieldText(row, sizeCol), FieldText(row, levelCol),
         FieldText(row, customerTypeCol), PriceText(row, oneMonth),
         PriceText(row, twoMonths), PriceText(row, threeMonths),
         PriceText(row, sixMonths), PriceText(row, oneYear),
         PriceText(row, oneDay), IdText(row)>>, COMMA)

\* csvContent of lines 88-102
exportToCSV(pricingData) ==
  join(<<HeaderFull>> \o [i \in 1..Len(pricingData) |-> ExportLine(pricingData[i])],
       LF)

\* rows a table shown by the manager may hold: the first fallback row, a
\* row with one price only, a row without id with a zero and a negative
\* price, a row with id 0, a size with a blank at its end, a size with a
\* comma
ExportRows ==
  {getFallbackData[1],
   InitialTable[1],
   Put(Put(KeyRow(s12x4, levelB, mkt), oneMonth, 0), oneYear, 0 - 3),
   Put(Put(KeyRow(s12x4, levelA, std), oneDay, 700), idCol, 0),
   Put(Put(KeyRow(s13x5 \o <<" ">>, levelA, std), oneMonth, 24000), idCol, 5),
   Put(Put(KeyRow(<<"1", "3", ",", "5">>, levelB, std), oneMonth, 100), idCol, 6)}

\* the most rows of a table that is exported
MaxRows == 2

(***************************************************************************)
(* Price calculations (lines 368-376 and 413-503)                          *)
(***************************************************************************)
\* Math.ceil(a / b) and Math.round(a / b) for whole a and positive whole b
Ceil(a, b) == 0 - ((0 - a) \div b)

\* Round gone wrong: the quotient is cut, not rounded
Round_Down(a, b) == a \div b

Round(a, b) == (2 * a + b) \div (2 * b)

\* The times of dates are counted in hours, the date texts of the model
\* having no finer part: the hours of a day, for the 1000 * 60 * 60 * 24
\* milliseconds of line 429
DAY == 24

\* the milliseconds of a day, for instants of the clock Date.now()
MS_DAY == 24 * 60 * 60 * 1000

\* the instant `days` days after the instant t of the clock, held as its
\* day and the milliseconds within the day
DaysAfter(t, days) == [day |-> t \div MS_DAY + days, ms |-> t % MS_DAY]

\* A date text 'YYYY-MM-DD' is held as the number of its day, counted from
\* the day of the first start date; 'YYYY-MM-DDTHH:00Z' has an hour as
\* well. A date that is undefined or '' is not given.
DateText(day, hour) == [given |-> TRUE, day |-> day, hour |-> hour]
NoDate == [given |-> FALSE, day |-> 0, hour |-> 0]

\* new Date(text).getTime(), in hours from the first start date: a text
\* without a zone is the UTC midnight of its day
getTime(date) == date.day * DAY + date.hour

\* getPackageOptions (lines 368-376)
PackageOption(key, duration) ==
  [given |-> TRUE, key |-> key, label |-> key, duration |-> duration]

getPackageOptions ==
  <<PackageOption(oneMonth, 30), PackageOption(twoMonths, 60),
    PackageOption(threeMonths, 90), PackageOption(sixMonths, 180),
    PackageOption(oneYear, 365)>>

\* packageOption left undefined
NoPackage == [given |-> FALSE, key |-> <<>>, label |-> <<>>, duration |-> 0]

\* two municipalities of the table of lines 491-497 (Tripoli, Zliten), and
\* a size and a municipality that are in neither table
s3x2    == <<"3", "x", "2">>
Tripoli == <<"T", "r", "i">>
Zliten  == <<"Z", "l", "i">>
Sabha   == <<"S", "a", "b">>

\* installationPrices[size] || 500 (lines 481-488 and 499)
installationPrices(size) ==
  CASE size = s13x5 -> 1500
    [] size = s12x4 -> 1200
    [] size = <<"1", "0", "x", "4">> -> 1000
    [] size = <<"8", "x", "3">> -> 800
    [] size = <<"6", "x", "3">> -> 600
    [] size = <<"4", "x", "3">> -> 500
    [] OTHER        -> 500

\* municipalityMultipliers[municipality] || 1.0 (lines 491-497 and 500), in
\* tenths
municipalityMultipliers(municipality) ==
  CASE municipality = <<"M", "i", "s">> -> 10
    [] municipality = Tripoli  -> 11
    [] municipality = <<"B", "e", "n">> -> 12
    [] municipality = Zliten   -> 9
    [] municipality = <<"A", "b", "u">> -> 11
    [] OTHER                   -> 10

\* getInstallationPrice gone wrong: the multiplier of the municipality is
\* left out
getInstallationPrice_NoMultiplier(size, municipality) ==
  installationPrices(size)

\* getInstallationPrice (lines 479-503)
getInstallationPrice(size, municipality) ==
  Round(installationPrices(size) * municipalityMultipliers(municipality), 10)

\* a billboard (BillboardPricingData, lines 274-283)
Billboard(id, size, municipality, level) ==
  [id |-> id, size |-> size, municipality |-> municipality, level |-> level]

\* a PricingCalculation (lines 285-293)
Calculation(billboard, basePrice, dailyPrice, totalDays, subtotal, installationPrice, total) ==
  [billboard |-> billboard, basePrice |-> basePrice, dailyPrice |-> dailyPrice,
   totalDays |-> totalDays, subtotal |-> subtotal,
   installationPrice |-> installationPrice, total |-> total]

\* TotalDays gone wrong: the last day is not counted
TotalDays_Exclusive(startDate, endDate) ==
  Ceil(getTime(endDate) - getTime(startDate), DAY)

\* totalDays of line 429
TotalDays(startDate, endDate) ==
  Ceil(getTime(endDate) - getTime(startDate), DAY) + 1

\* calculateDailyPrice (lines 413-444), pricingData being the rows its
\* findPriceForBillboard gets from getAllPricingData
calculateDailyPrice(billboard, customerType, startDate, endDate, includeInstallation, pricingData) ==
  LET dailyPrice == FindPrice(pricingData,
                              Query(billboard.size, billboard.level,
                                    customerType, oneDay))
      totalDays  == TotalDays(startDate, endDate)
      subtotal   == dailyPrice * totalDays
      installationPrice ==
        IF includeInstallation
        THEN getInstallationPrice(billboard.size, billboard.municipality)
        ELSE 0
  IN  Calculation(billboard, dailyPrice, dailyPrice, totalDays, subtotal,
                  installationPrice, subtotal + installationPrice)

\* calculatePackagePrice gone wrong: the installation is left out of the
\* total
calculatePackagePrice_TotalWithoutFee(billboard, customerType, packageOption, includeInstallation, pricingData) ==
  LET packagePrice == FindPrice(pricingData,
                                Query(billboard.size, billboard.level,
                                      customerType, packageOption.key))
      installationPrice ==
        IF includeInstallation
        THEN getInstallationPrice(billboard.size, billboard.municipality)
        ELSE 0
  IN  Calculation(billboard, packagePrice,
                  Round(packagePrice, packageOption.duration),
                  packageOption.duration, packagePrice, installationPrice,
                  packagePrice)

\* calculatePackagePrice (lines 449-474)
calculatePackagePrice(billboard, customerType, packageOption, includeInstallation, pricingData) ==
  LET packagePrice == FindPrice(pricingData,
                                Query(billboard.size, billboard.level,
                                      customerType, packageOption.key))
      installationPrice ==
        IF includeInstallation
        THEN getInstallationPrice(billboard.size, billboard.municipality)
        ELSE 0
  IN  Calculation(billboard, packagePrice,
                  Round(packagePrice, packageOption.duration),
                  packageOption.duration, packagePrice, installationPrice,
                  packagePrice + installationPrice)

(***************************************************************************)
(* Campaign statistics (lines 893-934)                                     *)
(***************************************************************************)
\* calculateAverageDailyPrice gone wrong: the mean is cut, not rounded
calculateAverageDailyPrice_Cut(calculations) ==
  LET RECURSIVE totalDailyPrice(_)
      totalDailyPrice(cs) ==
        IF cs = <<>> THEN 0 ELSE Head(cs).dailyPrice + totalDailyPrice(Tail(cs))
  IN  IF Len(calculations) = 0 THEN 0
      ELSE totalDailyPrice(calculations) \div Len(calculations)

\* lines 893-898
calculateAverageDailyPrice(calculations) ==
  LET RECURSIVE totalDailyPrice(_)
      totalDailyPrice(cs) ==
        IF cs = <<>> THEN 0 ELSE Head(cs).dailyPrice + totalDailyPrice(Tail(cs))
  IN  IF Len(calculations) = 0 THEN 0
      ELSE Round(totalDailyPrice(calculations), Len(calculations))

\* The forEach of lines 915-924 for one of its three objects, each starting
\* as {}: breakdown[key] = (breakdown[key] || 0) + 1 with the key
\* calc.billboard[field], for every calculation in turn
RECURSIVE Breakdown(_, _, _)
Breakdown(calculations, field, breakdown) ==
  IF calculations = <<>> THEN breakdown
  ELSE LET key == Head(calculations).billboard[field]
           old == IF key \in DOMAIN breakdown /\ breakdown[key] # 0
                  THEN breakdown[key] ELSE 0
       IN  Breakdown(Tail(calculations), field, Put(breakdown, key, old + 1))

\* getCampaignStats gone wrong: the days of all calculations are added up
getCampaignStats_SumOfDays(calculations) ==
  LET RECURSIVE days(_)
      days(cs) == IF cs = <<>> THEN 0 ELSE Head(cs).totalDays + days(Tail(cs))
  IN  [totalBillboards |-> Len(calculations),
       totalDays |-> days(calculations),
       averageDailyPrice |-> calculateAverageDailyPrice(calculations),
       sizeBreakdown |-> Breakdown(calculations, "size", EmptyRow),
       municipalityBreakdown |->
         Breakdown(calculations, "municipality", EmptyRow),
       levelBreakdown |-> Breakdown(calculations, "level", EmptyRow)]

\* lines 903-934
getCampaignStats(calculations) ==
  [totalBillboards |-> Len(calculations),
   totalDays |-> IF Len(calculations) > 0 THEN calculations[1].totalDays
                 ELSE 0,
   averageDailyPrice |-> calculateAverageDailyPrice(calculations),
   sizeBreakdown |-> Breakdown(calculations, "size", EmptyRow),
   municipalityBreakdown |-> Breakdown(calculations, "municipality", EmptyRow),
   levelBreakdown |-> Breakdown(calculations, "level", EmptyRow)]

(***************************************************************************)
(* State                                                                   *)
(***************************************************************************)
VARIABLES
  now,           \* Date.now(), in milliseconds
  failing,       \* the Storage operations that throw at present
  supabase,      \* whether the imported client is configured (not null)
  table,         \* the rows of pricing_ar, ordered by id
  localStorage,  \* the slot CACHE_KEY
  call,          \* the calls of findPriceForBillboard, per caller
  upd,           \* the call of updatePricingData
  csvData,       \* a text given to the parse alone
  parsed,        \* what the parse made of csvData
  job,           \* the call of calculateMultipleBillboards or generateQuote
  fee,           \* a call of getInstallationPrice alone
  held,          \* the quotes callers got earlier and still hold
  stats,         \* a call of getCampaignStats alone
  ui             \* the calculator component: its inputs, calls under way and display

vars ==
  <<now, failing, supabase, table, localStorage, call, upd, csvData, parsed,
    job, fee, held, stats, ui>>

Callers == {"c1"}

\* the ways Storage fails: not at all, setItem over quota, access denied
StorageModes == {{}, {"setItem"}, {"getItem", "setItem", "removeItem"}}

NoResp  == [kind |-> "none", rows |-> <<>>]
NoData  == [kind |-> "none", rows |-> <<>>, src |-> "none"]
NoPrice == [kind |-> "none", n |-> 0]
NoCached == [hit |-> FALSE, data |-> <<>>]

Value(rows, src) == [kind |-> "value", rows |-> rows, src |-> src]

IdleCall ==
  [pc |-> "idle", q |-> NoQuery, cached |-> NoCached, resp |-> NoResp,
   data |-> NoData, price |-> NoPrice, reads |-> 0]

NoResult == [kind |-> "none", success |-> FALSE, imported |-> 0, errors |-> <<>>]

Result(success, imported, errors) ==
  [kind |-> "value", success |-> success, imported |-> imported,
   errors |-> errors]

\* The frame of a call of updatePricingData. `before` is the table as it
\* was when the call was made; the code keeps no such copy, the properties
\* of the call refer to it.
IdleUpd ==
  [pc |-> "idle", rows |-> <<>>, resp |-> "none", ret |-> NoResult,
   before |-> <<>>]

NotParsed == [done |-> FALSE, rows |-> <<>>]

\* the arguments of calculateMultipleBillboards and of generateQuote
Args(billboards, customerType, pricingMode, startDate, endDate, packageOption, includeInstallation) ==
  [billboards |-> billboards, customerType |-> customerType,
   pricingMode |-> pricingMode, startDate |-> startDate, endDate |-> endDate,
   packageOption |-> packageOption,
   includeInstallation |-> includeInstallation]

\* a PricingQuote (lines 295-315)
NoQuote ==
  [id |-> <<>>, customerType |-> <<>>, pricingMode |-> "daily",
   startDate |-> NoDate, endDate |-> NoDate, packageDuration |-> Undefined,
   billboards |-> <<>>, subtotal |-> 0, totalInstallation |-> 0,
   grandTotal |-> 0, createdAt |-> 0, validUntil |-> DaysAfter(0, 0)]

\* what a call has returned: nothing yet, the list of calculations, the
\* quote, or an exception
NoReturn     == [kind |-> "none", calculations |-> <<>>, quote |-> NoQuote]
Returns(list) == [kind |-> "list", calculations |-> list, quote |-> NoQuote]
ReturnsQuote(quote) ==
  [kind |-> "quote", calculations |-> quote.billboards, quote |-> quote]
Throws       == [kind |-> "thrown", calculations |-> <<>>, quote |-> NoQuote]

\* The frame of a call. args.billboards is the caller's array, and refs
\* says of each of its objects which line of the result holds that very
\* object (`billboard,` of lines 436 and 466), 0 for none.
IdleJob ==
  [pc |-> "idle", viaQuote |-> FALSE,
   args |-> Args(<<>>, <<>>, "daily", NoDate, NoDate, NoPackage, FALSE),
   refs |-> <<>>, i |-> 1, calculations |-> <<>>, ret |-> NoReturn]

NoFee == [size |-> <<>>, municipality |-> <<>>, done |-> FALSE, value |-> 0]

Init ==
  /\ now = 0
  /\ failing = {}
  /\ supabase \in BOOLEAN
  /\ table = InitialTable
  /\ localStorage = <<>>
  /\ call = [p \in Callers |-> IdleCall]
  /\ upd = IdleUpd
  /\ csvData = <<>>
  /\ parsed = NotParsed
  /\ job = IdleJob
  /\ ui = [version |-> 0, complete |-> FALSE, flights |-> {}, shown |-> 0,
           loading |-> FALSE, error |-> FALSE]
  /\ stats = [calculations |-> <<>>, done |-> FALSE, value |-> <<>>]
  /\ held = <<>>
  /\ fee = NoFee

(***************************************************************************)
(* getAllPricingData (lines 330-363) and findPriceForBillboard (381-408)   *)
(***************************************************************************)
\* lines 333-339 and the catch of 359-362: what getAllPricingData returns
\* before any await, NoData when it goes on to the read of line 341
BeforeSelect(cached, client) ==
  IF cached.threw THEN Value(getFallbackData, "fallback")
  ELSE IF cached.hit THEN Value(cached.data, "cache")
  ELSE IF ~client THEN Value(getFallbackData, "fallback")
  ELSE NoData

\* AfterSelect gone wrong: the error of the read is not looked at, and the
\* rows of `data || []` are returned
AfterSelect_NoErrorCheck(resp, putThrew) ==
  IF resp.kind = "throw" THEN Value(getFallbackData, "fallback")
  ELSE IF putThrew THEN Value(getFallbackData, "fallback")
  ELSE Value(resp.rows, "backend")

\* lines 346-362: what getAllPricingData returns once the read has settled;
\* putThrew says whether setCachedData (line 354) threw
AfterSelect(resp, putThrew) ==
  IF resp.kind = "throw" THEN Value(getFallbackData, "fallback")
  ELSE IF resp.kind = "error" THEN Value(getFallbackData, "fallback")
  ELSE IF putThrew THEN Value(getFallbackData, "fallback")
  ELSE Value(resp.rows, "backend")

\* lines 387-407: the price findPriceForBillboard returns for the table
\* getAllPricingData gave it
PriceOf(data, q) ==
  IF data.kind = "thrown" THEN [kind |-> "value", n |-> 0]
  ELSE [kind |-> "value", n |-> FindPrice(data.rows, q)]

\* the call runs to its first await: the cache is asked, and the call ends
\* on a hit or without a client
FindStart(p, q) ==
  /\ call[p].pc = "idle"
  /\ LET cached == getCachedData(localStorage, now, failing)
         data   == BeforeSelect(cached, supabase)
         seen   == [hit |-> cached.hit, data |-> cached.data]
     IN  /\ localStorage' = cached.slot
         /\ call' = [call EXCEPT ![p] =
                       IF data.kind = "none"
                       THEN [IdleCall EXCEPT !.pc = "reading", !.q = q,
                                             !.cached = seen]
                       ELSE [IdleCall EXCEPT !.q = q, !.cached = seen,
                                             !.data = data,
                                             !.price = PriceOf(data, q)]]
  /\ UNCHANGED <<now, failing, supabase, table, upd, csvData, parsed, job, fee,
                 held, stats, ui>>

\* the backend answers the read of lines 341-344
BackendSelect(p, outcome) ==
  /\ call[p].pc = "reading"
  /\ call' = [call EXCEPT ![p].pc = "resume",
                          ![p].reads = @ + 1,
                          ![p].resp = [kind |-> outcome,
                                       rows |-> IF outcome = "ok" THEN table
                                                ELSE <<>>]]
  /\ UNCHANGED <<now, failing, supabase, table, localStorage, upd, csvData,
                 parsed, job, fee, held, stats, ui>>

\* FindResume gone wrong: whatever the call returns is stored, the fallback
\* rows after a failed read as well
FindResume_StoresFallback(p) ==
  /\ call[p].pc = "resume"
  /\ LET resp == call[p].resp
         data == AfterSelect(resp, FALSE)
         put  == setCachedData(localStorage, data.rows, now, failing)
     IN  /\ localStorage' = put.slot
         /\ call' = [call EXCEPT ![p].pc = "idle", ![p].data = data,
                                 ![p].price = PriceOf(data, call[p].q)]
  /\ UNCHANGED <<now, failing, supabase, table, upd, csvData, parsed, job, fee,
                 held, stats, ui>>

\* the call goes on after the await: lines 346-362, then lines 390-402
FindResume(p) ==
  /\ call[p].pc = "resume"
  /\ LET resp == call[p].resp
         put  == setCachedData(localStorage, resp.rows, now, failing)
         data == AfterSelect(resp, resp.kind = "ok" /\ put.threw)
     IN  /\ localStorage' = IF resp.kind = "ok" THEN put.slot ELSE localStorage
         /\ call' = [call EXCEPT ![p].pc = "idle", ![p].data = data,
                                 ![p].price = PriceOf(data, call[p].q)]
  /\ UNCHANGED <<now, failing, supabase, table, upd, csvData, parsed, job, fee,
                 held, stats, ui>>

(***************************************************************************)
(* updatePricingData (lines 939-988)                                       *)
(***************************************************************************)
\* the most rows the table holds when an upload starts
MaxTable == 2

\* the rows the parse makes of each uploaded file
UploadRows == [text \in Uploads |-> ParseCSV(text)]

\* lines 941-971: no client, or the parse and the delete request
UpdStart(text) ==
  /\ upd.pc = "idle"
  /\ Len(table) <= MaxTable
  /\ upd' = IF ~supabase
            THEN [IdleUpd EXCEPT
                    !.ret = Result(FALSE, 0, <<"Supabase unavailable">>),
                    !.before = table]
            ELSE [IdleUpd EXCEPT !.pc = "deleting", !.rows = UploadRows[text],
                                 !.before = table]
  /\ UNCHANGED <<now, failing, supabase, table, localStorage, call, csvData,
                 parsed, job, fee, held, stats, ui>>

\* the backend answers the delete of line 971, whose result the code does
\* not read; then the insert of line 974 is requested
UpdDelete(outcome) ==
  /\ upd.pc = "deleting"
  /\ table' = IF outcome = "ok" THEN DeleteNeq(table) ELSE table
  /\ upd' = IF outcome = "throw"
            THEN [upd EXCEPT !.pc = "idle", !.resp = "throw",
                             !.ret = Result(FALSE, 0, <<"delete threw">>)]
            ELSE [upd EXCEPT !.pc = "inserting"]
  /\ UNCHANGED <<now, failing, supabase, localStorage, call, csvData, parsed, job, fee,
                 held, stats, ui>>

\* AfterInsert gone wrong: the error of the insert is not looked at
AfterInsert_IgnoreError(outcome, rows, clearThrew) ==
  IF outcome = "throw" THEN Result(FALSE, 0, <<"insert threw">>)
  ELSE IF clearThrew THEN Result(FALSE, 0, <<"clearCache threw">>)
  ELSE Result(TRUE, Len(rows), <<>>)

\* lines 976-987: the result for the settled insert; clearThrew says whether
\* clearCache (line 981) threw
AfterInsert(outcome, rows, clearThrew) ==
  IF outcome = "throw" THEN Result(FALSE, 0, <<"insert threw">>)
  ELSE IF outcome = "error" THEN Result(FALSE, 0, <<"insert error">>)
  ELSE IF clearThrew THEN Result(FALSE, 0, <<"clearCache threw">>)
  ELSE Result(TRUE, Len(rows), <<>>)

\* the backend answers the insert of line 974, and the call ends
UpdInsert(outcome) ==
  /\ upd.pc = "inserting"
  /\ LET refused == outcome = "ok" /\ InsertRefused(table, upd.rows)
         settled == IF refused THEN "error" ELSE outcome
         clr     == clearCache(localStorage, failing)
         ret     == AfterInsert(settled, upd.rows, settled = "ok" /\ clr.threw)
     IN  /\ table' = IF settled = "ok" THEN InsertRows(table, upd.rows)
                     ELSE table
         /\ localStorage' = IF settled = "ok" THEN clr.slot ELSE localStorage
         /\ upd' = [upd EXCEPT !.pc = "idle", !.resp = settled, !.ret = ret]
  /\ UNCHANGED <<now, failing, supabase, call, csvData, parsed, job, fee, held,
                 stats, ui>>

(***************************************************************************)
(* calculateMultipleBillboards (lines 508-545) and generateQuote (550-599) *)
(***************************************************************************)
\* the assets a caller selects, the most of them in one call, and the
\* arguments of the calls
Assets ==
  {Billboard("b1", s13x5, Tripoli, levelA), Billboard("b2", s3x2, Sabha, levelB),
   Billboard("b3", s12x4, Zliten, levelA)}

MaxAssets == 2

\* every list of billboards, both modes, the start date, no end date or one
\* of three, no package or one of two, with and without installation
ArgsSet ==
  {Args(bs, std, mode, DateText(0, 0), e, o, inst) :
     bs \in UNION {[1..n -> Assets] : n \in 0..MaxAssets},
     mode \in {"daily", "package"},
     e \in {NoDate, DateText(0, 0), DateText(6, 0), DateText(5, 12)},
     o \in {NoPackage, getPackageOptions[1], getPackageOptions[4]},
     inst \in BOOLEAN}

\* the calls for a quote of the one-month package, for every list of
\* billboards
PackageArgs ==
  {Args(bs, std, "package", DateText(0, 0), NoDate, getPackageOptions[1],
        FALSE) :
     bs \in UNION {[1..n -> Assets] : n \in 0..MaxAssets}}

\* The zone of the browser: hours ahead of UTC, and the days (counted as the
\* dates are) from which and up to which the clock is one hour further
\* ahead. One zone without and one with daylight saving time.
Zones ==
  {[base |-> 2, dstFrom |-> 0, dstTo |-> 0],
   [base |-> 1, dstFrom |-> 60, dstTo |-> 270]}

\* the offset of local time at the time t
LocalTZA(zone, t) ==
  zone.base +
    (IF zone.dstFrom <= t \div DAY /\ t \div DAY < zone.dstTo THEN 1 ELSE 0)

\* lines 576-578: end.setDate(end.getDate() + days), which counts in local
\* time and keeps the local time of day
setDate(t, days, zone) ==
  LET local == t + LocalTZA(zone, t) + days * DAY
  IN  local - LocalTZA(zone, local)

\* toISOString().split('T')[0] (line 579): the UTC date of the time t
toISODate(t) == DateText(t \div DAY, 0)

\* reduce((sum, calc) => sum + calc.subtotal, 0) of line 569
RECURSIVE SumSubtotal(_)
SumSubtotal(calculations) ==
  IF calculations = <<>> THEN 0
  ELSE Head(calculations).subtotal + SumSubtotal(Tail(calculations))

\* reduce((sum, calc) => sum + calc.installationPrice, 0) of line 570
RECURSIVE SumInstallation(_)
SumInstallation(calculations) ==
  IF calculations = <<>> THEN 0
  ELSE Head(calculations).installationPrice
         + SumInstallation(Tail(calculations))

\* BuildQuote gone wrong: the installation is left out of the grand total
BuildQuote_WithoutInstallation(args, calculations, t, d1, d2, zone) ==
  [id |-> <<"Q", "-">> \o NumberText(t),
   customerType |-> args.customerType,
   pricingMode |-> args.pricingMode,
   startDate |-> args.startDate,
   endDate |-> IF args.pricingMode = "package" /\ args.packageOption.given
               THEN toISODate(setDate(getTime(args.startDate),
                                      args.packageOption.duration, zone))
               ELSE args.endDate,
   packageDuration |-> IF args.packageOption.given
                       THEN args.packageOption.label ELSE Undefined,
   billboards |-> calculations,
   subtotal |-> SumSubtotal(calculations),
   totalInstallation |-> SumInstallation(calculations),
   grandTotal |-> SumSubtotal(calculations),
   createdAt |-> t + d1,
   validUntil |-> DaysAfter(t + d1 + d2, 30)]

\* lines 569-598: the quote generateQuote builds from the calculations in a
\* browser of the zone. The clock is read three times: Date.now() for the id
\* (line 583) at the time t, new Date() for createdAt (line 594) d1
\* milliseconds later, and Date.now() for validUntil (line 595) d2
\* milliseconds after that.
BuildQuote(args, calculations, t, d1, d2, zone) ==
  [id |-> <<"Q", "-">> \o NumberText(t),
   customerType |-> args.customerType,
   pricingMode |-> args.pricingMode,
   startDate |-> args.startDate,
   endDate |-> IF args.pricingMode = "package" /\ args.packageOption.given
               THEN toISODate(setDate(getTime(args.startDate),
                                      args.packageOption.duration, zone))
               ELSE args.endDate,
   packageDuration |-> IF args.packageOption.given
                       THEN args.packageOption.label ELSE Undefined,
   billboards |-> calculations,
   subtotal |-> SumSubtotal(calculations),
   totalInstallation |-> SumInstallation(calculations),
   grandTotal |-> SumSubtotal(calculations) + SumInstallation(calculations),
   createdAt |-> t + d1,
   validUntil |-> DaysAfter(t + d1 + d2, 30)]

\* Push gone wrong: the calculation is put in front
Push_Front(calculations, calculation) == <<calculation>> \o calculations

\* calculations.push(calculation) of line 541
Push(calculations, calculation) == Append(calculations, calculation)

\* calculateMultipleBillboards is called, by a caller or by generateQuote
\* (line 559); the model follows one call
JobStart(viaQuote, args) ==
  /\ job = IdleJob
  /\ job' = [IdleJob EXCEPT !.pc = "loop", !.viaQuote = viaQuote,
                            !.args = args,
                            !.refs = [k \in 1..Len(args.billboards) |-> k]]
  /\ UNCHANGED <<now, failing, supabase, table, localStorage, call, upd,
                 csvData, parsed, fee, held, stats, ui>>

\* one turn of the loop of lines 519-542 for the next billboard. Its price
\* lookup (lines 420 and 455) asks getAllPricingData (line 387) anew: the
\* cache, else the backend, which answers the read with the outcome, else
\* the fallback data. The call throws at line 538 when the mode has not
\* what it needs.
JobStep(outcome) ==
  /\ job.pc = "loop"
  /\ job.i <= Len(job.args.billboards)
  /\ LET a == job.args
         billboard == a.billboards[job.i]
         cached == getCachedData(localStorage, now, failing)
         early  == BeforeSelect(cached, supabase)
         resp   == [kind |-> outcome,
                    rows |-> IF outcome = "ok" THEN table ELSE <<>>]
         put    == setCachedData(cached.slot, resp.rows, now, failing)
         data   == IF early.kind # "none" THEN early
                   ELSE AfterSelect(resp, outcome = "ok" /\ put.threw)
         slot   == IF early.kind = "none" /\ outcome = "ok"
                   THEN put.slot ELSE cached.slot
     IN  IF a.pricingMode = "daily" /\ a.endDate.given
         THEN /\ job' = [job EXCEPT !.i = @ + 1,
                           !.calculations =
                              Push(@, calculateDailyPrice(
                                        billboard, a.customerType, a.startDate,
                                        a.endDate, a.includeInstallation,
                                        data.rows))]
              /\ localStorage' = slot
         ELSE IF a.pricingMode = "package" /\ a.packageOption.given
         THEN /\ job' = [job EXCEPT !.i = @ + 1,
                           !.calculations =
                              Push(@, calculatePackagePrice(
                                        billboard, a.customerType,
                                        a.packageOption, a.includeInstallation,
                                        data.rows))]
              /\ localStorage' = slot
         ELSE /\ job' = [job EXCEPT !.pc = "idle", !.calculations = <<>>,
                                    !.ret = Throws]
              /\ localStorage' = localStorage
  /\ UNCHANGED <<now, failing, supabase, table, call, upd, csvData, parsed,
                 fee, held, stats, ui>>

\* the loop is over: line 544 returns the list, and generateQuote goes on
\* to build and return the quote (lines 569-598), the clock advancing by d1
\* and d2 milliseconds between its readings
JobReturn(zone, d1, d2) ==
  /\ job.pc = "loop"
  /\ job.i > Len(job.args.billboards)
  /\ job.viaQuote \/ (d1 = 0 /\ d2 = 0)
  /\ job' = [job EXCEPT !.pc = "idle",
               !.ret = IF job.viaQuote
                       THEN ReturnsQuote(BuildQuote(job.args, job.calculations,
                                                    now, d1, d2, zone))
                       ELSE Returns(job.calculations)]
  /\ now' = now + d1 + d2
  /\ UNCHANGED <<failing, supabase, table, localStorage, call, upd,
                 csvData, parsed, fee, held, stats, ui>>

\* the most quotes callers hold from earlier calls
MaxHeld == 1

\* the caller keeps the quote it got (setGeneratedQuote of the calculator,
\* line 188), and the service is free for the next call
KeepQuote ==
  /\ job.pc = "idle"
  /\ job.ret.kind = "quote"
  /\ Len(held) < MaxHeld
  /\ held' = Append(held, job.ret.quote)
  /\ job' = IdleJob
  /\ UNCHANGED <<now, failing, supabase, table, localStorage, call, upd,
                 csvData, parsed, fee, stats, ui>>

\* After the quote is returned its caller pushes a further object onto the
\* array it passed as `billboards`. The quote holds the array built at line
\* 517, not the caller's.
AddAsset ==
  /\ job.pc = "idle"
  /\ job.ret.kind = "quote"
  /\ Len(job.args.billboards) <= MaxAssets
  /\ job' = [job EXCEPT
               !.args.billboards =
                  Append(@, Billboard("b4", s3x2, Tripoli, levelA)),
               !.refs = Append(@, 0)]
  /\ UNCHANGED <<now, failing, supabase, table, localStorage, call, upd,
                 csvData, parsed, fee, held, stats, ui>>

\* the caller splices the j-th object out of its array
RemoveAsset(j) ==
  /\ job.pc = "idle"
  /\ job.ret.kind = "quote"
  /\ j \in 1..Len(job.args.billboards)
  /\ job' = [job EXCEPT
               !.args.billboards = SubSeq(@, 1, j - 1) \o SubSeq(@, j + 1, Len(@)),
               !.refs = SubSeq(@, 1, j - 1) \o SubSeq(@, j + 1, Len(@))]
  /\ UNCHANGED <<now, failing, supabase, table, localStorage, call, upd,
                 csvData, parsed, fee, held, stats, ui>>

\* The caller assigns to the size of the j-th object of its array. The
\* calculation made for that object holds the object itself (`billboard,`
\* of lines 436 and 466, pushed at line 541 and put into the quote at line
\* 589), so the line of the quote shows the new size as well.
EditAsset(j, size) ==
  /\ job.pc = "idle"
  /\ job.ret.kind = "quote"
  /\ j \in 1..Len(job.args.billboards)
  /\ job.args.billboards[j].size # size
  /\ LET k == job.refs[j]
     IN  job' = IF k = 0
                THEN [job EXCEPT !.args.billboards[j].size = size]
                ELSE [job EXCEPT !.args.billboards[j].size = size,
                                 !.ret.calculations[k].billboard.size = size,
                                 !.ret.quote.billboards[k].billboard.size = size]
  /\ UNCHANGED <<now, failing, supabase, table, localStorage, call, upd,
                 csvData, parsed, fee, held, stats, ui>>

\* getInstallationPrice is called and returns
FeeCall ==
  /\ ~fee.done
  /\ fee' = [fee EXCEPT !.done = TRUE,
                        !.value = getInstallationPrice(fee.size,
                                                       fee.municipality)]
  /\ UNCHANGED <<now, failing, supabase, table, localStorage, call, upd,
                 csvData, parsed, job, held, stats, ui>>

(***************************************************************************)
(* The calculator component (EnhancedPricingCalculator.tsx, lines 100-156) *)
(*                                                                         *)
(* ui.version counts the values the inputs of the effect of line 105 have  *)
(* taken (billboards, customer type, mode, dates, package, installation),  *)
(* and stands for the latest of them; ui.complete says whether they have   *)
(* what their mode needs (an end date, a package). A call of               *)
(* calculatePrices works on the inputs of the render that made it, so a    *)
(* call under way is held as the version it was made for, and the          *)
(* calculations displayed as the version they were computed from, 0 for    *)
(* none.                                                                   *)
(***************************************************************************)
\* the most changes of the inputs
MaxInputs == 4

\* An input changes with billboards selected, the effect of lines 100-105
\* runs and calls calculatePrices, which runs to its await (lines 108-147):
\* it ends at once with an error shown when the mode lacks what it needs,
\* and else calls calculateMultipleBillboards
ChangeInput(complete) ==
  /\ ui.version < MaxInputs
  /\ ui' = IF complete
           THEN [ui EXCEPT !.version = @ + 1, !.complete = TRUE,
                           !.flights = @ \cup {ui.version + 1},
                           !.loading = TRUE, !.error = FALSE]
           ELSE [ui EXCEPT !.version = @ + 1, !.complete = FALSE,
                           !.loading = FALSE, !.error = TRUE]
  /\ UNCHANGED <<now, failing, supabase, table, localStorage, call, upd,
                 csvData, parsed, job, fee, held, stats>>

\* the call of calculateMultipleBillboards made for the inputs v settles,
\* and calculatePrices goes on: setCalculations (line 150) and
\* setLoading(false) (line 154)
CalcFinish(v) ==
  /\ v \in ui.flights
  /\ ui' = [ui EXCEPT !.flights = @ \ {v}, !.shown = v, !.loading = FALSE]
  /\ UNCHANGED <<now, failing, supabase, table, localStorage, call, upd,
                 csvData, parsed, job, fee, held, stats>>

(***************************************************************************)
(* Environment                                                             *)
(***************************************************************************)
\* the clock shows whole cache periods plus a few milliseconds: the most
\* periods and the most milliseconds
MaxPeriods == 1
MaxMillis  == 1

\* time passes: one millisecond, or one cache period
Tick(d) ==
  /\ (now + d) \div CACHE_DURATION <= MaxPeriods
  /\ (now + d) % CACHE_DURATION <= MaxMillis
  /\ now' = now + d
  /\ UNCHANGED <<failing, supabase, table, localStorage, call, upd, csvData,
                 parsed, job, fee, held, stats, ui>>

\* Storage starts or stops failing
StorageChange(mode) ==
  /\ failing # mode
  /\ failing' = mode
  /\ UNCHANGED <<now, supabase, table, localStorage, call, upd, csvData,
                 parsed, job, fee, held, stats, ui>>

\* the service with uploads: one caller asking one price, the backend
\* answering in every way, Storage working or denied
Next ==
  \/ \E p \in Callers, q \in {Query(s13x5, levelA, std, oneDay)} :
       FindStart(p, q)
  \/ \E p \in Callers, o \in Outcomes : BackendSelect(p, o)
  \/ \E p \in Callers : FindResume(p)
  \/ \E text \in Uploads : UpdStart(text)
  \/ \E o \in Outcomes : UpdDelete(o)
  \/ \E o \in Outcomes : UpdInsert(o)
  \/ \E mode \in {{}, {"getItem", "setItem", "removeItem"}} : StorageChange(mode)

Spec == Init /\ [][Next]_vars

\* the price lookup over time: every query, the clock, every Storage mode,
\* no upload
NextFind ==
  \/ \E p \in Callers, q \in Queries : FindStart(p, q)
  \/ \E p \in Callers, o \in Outcomes : BackendSelect(p, o)
  \/ \E p \in Callers : FindResume(p)
  \/ \E d \in {1, CACHE_DURATION} : Tick(d)
  \/ \E mode \in StorageModes : StorageChange(mode)

SpecFind == Init /\ [][NextFind]_vars

\* the parse alone, over every upload text
InitImport ==
  /\ now = 0
  /\ failing = {}
  /\ supabase = TRUE
  /\ table = InitialTable
  /\ localStorage = <<>>
  /\ call = [p \in Callers |-> IdleCall]
  /\ upd = IdleUpd
  /\ csvData \in Texts
  /\ parsed = NotParsed
  /\ job = IdleJob
  /\ ui = [version |-> 0, complete |-> FALSE, flights |-> {}, shown |-> 0,
           loading |-> FALSE, error |-> FALSE]
  /\ stats = [calculations |-> <<>>, done |-> FALSE, value |-> <<>>]
  /\ held = <<>>
  /\ fee = NoFee

\* lines 946-968 applied to csvData
ParseText ==
  /\ ~parsed.done
  /\ parsed' = [done |-> TRUE, rows |-> ParseCSV(csvData)]
  /\ UNCHANGED <<now, failing, supabase, table, localStorage, call, upd,
                 csvData, job, fee, held, stats, ui>>

SpecImport == InitImport /\ [][ParseText]_vars

\* the manager's table written out and read back: exportToCSV of any table,
\* then the parse of updatePricingData on the text
InitExport ==
  /\ now = 0
  /\ failing = {}
  /\ supabase = TRUE
  /\ table \in UNION {[1..n -> ExportRows] : n \in 0..MaxRows}
  /\ localStorage = <<>>
  /\ call = [p \in Callers |-> IdleCall]
  /\ upd = IdleUpd
  /\ csvData = <<>>
  /\ parsed = NotParsed
  /\ job = IdleJob
  /\ ui = [version |-> 0, complete |-> FALSE, flights |-> {}, shown |-> 0,
           loading |-> FALSE, error |-> FALSE]
  /\ stats = [calculations |-> <<>>, done |-> FALSE, value |-> <<>>]
  /\ held = <<>>
  /\ fee = NoFee

\* lines 86-102 of the manager: the text of the table
ExportCSV ==
  /\ csvData = <<>>
  /\ csvData' = exportToCSV(table)
  /\ UNCHANGED <<now, failing, supabase, table, localStorage, call, upd,
                 parsed, job, fee, held, stats, ui>>

\* the exported text is given to the parse
ImportExported == csvData # <<>> /\ ParseText

NextExport == ExportCSV \/ ImportExported

SpecExport == InitExport /\ [][NextExport]_vars

\* calculations and quotes: every argument list, the backend answering each
\* read in every way
NextQuote ==
  \/ \E v \in BOOLEAN, args \in ArgsSet : JobStart(v, args)
  \/ \E o \in Outcomes : JobStep(o)
  \/ \E zone \in Zones, d1, d2 \in 0..1 : JobReturn(zone, d1, d2)

SpecQuote == Init /\ [][NextQuote]_vars

\* quotes asked for one after the other while the clock goes on
NextCaller ==
  \/ \E args \in PackageArgs : JobStart(TRUE, args)
  \/ \E o \in Outcomes : JobStep(o)
  \/ \E zone \in {[base |-> 2, dstFrom |-> 0, dstTo |-> 0]}, d1, d2 \in 0..1 :
       JobReturn(zone, d1, d2)
  \/ KeepQuote
  \/ Tick(1)

SpecCaller == Init /\ [][NextCaller]_vars

\* a quote and what its caller does afterwards to the array and the objects
\* it passed
NextSnapshot ==
  \/ \E args \in PackageArgs : JobStart(TRUE, args)
  \/ \E o \in Outcomes : JobStep(o)
  \/ \E zone \in {[base |-> 2, dstFrom |-> 0, dstTo |-> 0]}, d1, d2 \in 0..1 :
       JobReturn(zone, d1, d2)
  \/ AddAsset
  \/ \E j \in 1..(MaxAssets + 1) : RemoveAsset(j)
  \/ \E j \in 1..(MaxAssets + 1) : EditAsset(j, s3x2)

SpecSnapshot == Init /\ [][NextSnapshot]_vars

\* the most calculations getCampaignStats is given
MaxCalcs == 2

\* getCampaignStats alone, over lists of calculations of the three assets
\* with two daily prices and two numbers of days
InitStats ==
  /\ now = 0
  /\ failing = {}
  /\ supabase = TRUE
  /\ table = InitialTable
  /\ localStorage = <<>>
  /\ call = [p \in Callers |-> IdleCall]
  /\ upd = IdleUpd
  /\ csvData = <<>>
  /\ parsed = NotParsed
  /\ job = IdleJob
  /\ ui = [version |-> 0, complete |-> FALSE, flights |-> {}, shown |-> 0,
           loading |-> FALSE, error |-> FALSE]
  /\ fee = NoFee
  /\ held = <<>>
  /\ stats \in
       {[calculations |-> cs, done |-> FALSE, value |-> <<>>] :
          cs \in UNION {[1..n -> {Calculation(b, p * d, p, d, p * d, 0, p * d) :
                                    b \in Assets, p \in {116, 117}, d \in {1, 30}}] :
                          n \in 0..MaxCalcs}}

\* getCampaignStats is called and returns
StatsCall ==
  /\ ~stats.done
  /\ stats' = [stats EXCEPT !.done = TRUE,
                            !.value = getCampaignStats(stats.calculations)]
  /\ UNCHANGED <<now, failing, supabase, table, localStorage, call, upd,
                 csvData, parsed, job, fee, held, ui>>

SpecStats == InitStats /\ [][StatsCall]_vars

\* the calculator: inputs changing while calculations are under way, which
\* settle in any order
NextCalculator ==
  \/ \E complete \in BOOLEAN : ChangeInput(complete)
  \/ \E v \in 1..MaxInputs : CalcFinish(v)

SpecCalculator == Init /\ [][NextCalculator]_vars

\* getInstallationPrice alone, over every size and municipality
InitFee ==
  /\ now = 0
  /\ failing = {}
  /\ supabase = TRUE
  /\ table = InitialTable
  /\ localStorage = <<>>
  /\ call = [p \in Callers |-> IdleCall]
  /\ upd = IdleUpd
  /\ csvData = <<>>
  /\ parsed = NotParsed
  /\ job = IdleJob
  /\ ui = [version |-> 0, complete |-> FALSE, flights |-> {}, shown |-> 0,
           loading |-> FALSE, error |-> FALSE]
  /\ stats = [calculations |-> <<>>, done |-> FALSE, value |-> <<>>]
  /\ held = <<>>
  /\ fee \in {[NoFee EXCEPT !.size = size, !.municipality = municipality] :
                size \in {s13x5, s12x4, <<"1", "0", "x", "4">>, <<"8", "x", "3">>,
                          <<"6", "x", "3">>, <<"4", "x", "3">>, s3x2, <<>>},
                municipality \in {<<"M", "i", "s">>, Tripoli, <<"B", "e", "n">>,
                                  Zliten, <<"A", "b", "u">>, Sabha, <<>>}}

SpecFee == InitFee /\ [][FeeCall]_vars

(***************************************************************************)
(* Properties of the price lookup, checked under SpecFind                  *)
(***************************************************************************)
\* row r carries the size, level and customer type asked for
HasTriple(r, q) ==
  /\ sizeCol \in DOMAIN r /\ r[sizeCol] = q.size
  /\ levelCol \in DOMAIN r /\ r[levelCol] = q.level
  /\ customerTypeCol \in DOMAIN r /\ r[customerTypeCol] = q.customerType

\* the places of rows that carry the triple asked for
Places(rows, q) == {i \in 1..Len(rows) : HasTriple(rows[i], q)}

\* a call of findPriceForBillboard that has returned
Returned(c) == c.pc = "idle" /\ c.data.kind = "value"

\* C1: findPriceForBillboard never throws, and when no row of the table it
\* looked in carries the size, level and customer type asked for, it
\* returns 0.
C1_NoRowGivesZero ==
  \A p \in Callers :
    LET c == call[p]
    IN  /\ c.price.kind # "thrown"
        /\ Returned(c) /\ Places(c.data.rows, c.q) = {}
             => c.price = [kind |-> "value", n |-> 0]

\* a call has returned 0 from a table with rows, none of which carries the
\* triple asked for
C1_Witness ==
  \E p \in Callers :
    /\ Returned(call[p])
    /\ call[p].data.src = "backend"
    /\ call[p].data.rows # <<>>
    /\ Places(call[p].data.rows, call[p].q) = {}
    /\ call[p].price = [kind |-> "value", n |-> 0]

\* C2: when rows carry the triple asked for, the first of them in table
\* order decides: its value at the pricing key when it has one (a number),
\* otherwise 0, whatever later rows with the same triple hold.
C2_FirstMatchDecides ==
  \A p \in Callers :
    LET c == call[p]
    IN  Returned(c) /\ Places(c.data.rows, c.q) # {}
          => LET first == CHOOSE i \in Places(c.data.rows, c.q) :
                            \A j \in Places(c.data.rows, c.q) : i <= j
                 row   == c.data.rows[first]
             IN  c.price.kind = "value" /\
                 c.price.n = IF c.q.pricingKey \in DOMAIN row
                             THEN row[c.q.pricingKey] ELSE 0

\* a call has returned 0 because the first row with the triple has no value
\* at the key, while a later row with the same triple has one
C2_Witness ==
  \E p \in Callers :
    LET c == call[p]
    IN  /\ Returned(c)
        /\ c.price = [kind |-> "value", n |-> 0]
        /\ \E i, j \in Places(c.data.rows, c.q) :
             /\ \A k \in Places(c.data.rows, c.q) : i <= k
             /\ i < j
             /\ c.q.pricingKey \notin DOMAIN c.data.rows[i]
             /\ c.q.pricingKey \in DOMAIN c.data.rows[j]
             /\ c.data.rows[j][c.q.pricingKey] # 0

(***************************************************************************)
(* Properties of getAllPricingData and of the cache, under SpecFind        *)
(***************************************************************************)
\* the slot holds an entry getItem gives out and that is not older than
\* CACHE_DURATION
ValidEntry ==
  /\ localStorage # <<>>
  /\ "getItem" \notin failing
  /\ now - localStorage[1].timestamp <= CACHE_DURATION

\* the rows of the entry in the slot
EntryRows == JSONparse(localStorage[1]).data

\* caller p starts a call in this step
Starts(p) == call[p].pc = "idle" /\ call'[p] # call[p]

\* the call of caller p goes on after its read in this step
Resumes(p) == call[p].pc = "resume" /\ call'[p].pc = "idle"

\* C3: getAllPricingData never fails. A call that finds a valid cache entry
\* returns the rows of the entry without reading the backend; a call
\* without one returns the fallback table when there is no backend client,
\* when the read answers with an error and when the read throws. No call
\* reads the backend more than once.
C3_NeverFails ==
  [][\A p \in Callers :
       /\ call'[p].data.kind # "thrown"
       /\ call'[p].reads <= 1
       /\ Starts(p) /\ ValidEntry
            => /\ call'[p].pc = "idle"
               /\ call'[p].data = Value(EntryRows, "cache")
               /\ call'[p].reads = 0
       /\ Starts(p) /\ ~ValidEntry /\ ~supabase
            => /\ call'[p].pc = "idle"
               /\ call'[p].data = Value(getFallbackData, "fallback")
               /\ call'[p].reads = 0
       /\ Starts(p) /\ ~ValidEntry /\ supabase
            => call'[p].pc = "reading" /\ call'[p].reads = 0
       /\ Resumes(p) /\ call[p].resp.kind \in {"error", "throw"}
            => call'[p].data = Value(getFallbackData, "fallback")
    ]_vars

\* a call whose one read of the backend answered with an error has returned
\* the fallback table
C3_Witness ==
  \E p \in Callers :
    /\ Returned(call[p])
    /\ call[p].resp.kind = "error"
    /\ call[p].reads = 1
    /\ ~call[p].cached.hit
    /\ call[p].data = Value(getFallbackData, "fallback")

\* C4: the cache holds the rows with the time they were stored. While
\* Storage serves the operations: storing puts the rows of the read and the
\* present time in the slot; a look at an entry not older than
\* CACHE_DURATION gives its rows and leaves it; a look at an older entry
\* gives nothing and removes it; a look at the empty slot gives nothing;
\* and only storing fills the slot.
C4_CacheLifetime ==
  [][/\ \A p \in Callers :
          /\ Resumes(p) /\ call[p].resp.kind = "ok" /\ "setItem" \notin failing
               => /\ localStorage' # <<>>
                  /\ JSONparse(localStorage'[1]) =
                       [data |-> call[p].resp.rows, timestamp |-> now]
          /\ Starts(p) /\ localStorage # <<>> /\ "getItem" \notin failing
               => IF now - localStorage[1].timestamp <= CACHE_DURATION
                  THEN /\ call'[p].cached = [hit |-> TRUE, data |-> EntryRows]
                       /\ localStorage' = localStorage
                  ELSE /\ ~call'[p].cached.hit
                       /\ "removeItem" \notin failing => localStorage' = <<>>
          /\ Starts(p) /\ localStorage = <<>>
               => ~call'[p].cached.hit /\ localStorage' = <<>>
     /\ localStorage = <<>> /\ localStorage' # <<>>
          => \E p \in Callers : Resumes(p) /\ call[p].resp.kind = "ok"
    ]_vars

\* a call has returned the rows of an entry exactly CACHE_DURATION old
C4_Witness ==
  \E p \in Callers :
    /\ Returned(call[p])
    /\ call[p].data.src = "cache"
    /\ call[p].cached.hit
    /\ localStorage # <<>>
    /\ call[p].data.rows = EntryRows
    /\ now - localStorage[1].timestamp = CACHE_DURATION

(***************************************************************************)
(* Properties of the cache under failing Storage and of updatePricingData, *)
(* under Spec                                                              *)
(***************************************************************************)
\* updatePricingData returns in this step
UpdReturns == upd.pc # "idle" /\ upd'.pc = "idle"

\* updatePricingData is called in this step
UpdStarts == upd.pc = "idle" /\ upd' # upd

\* C5: no failure of Storage reaches a caller. A look at the cache that
\* Storage refuses is a miss and the call goes on to the backend; a store
\* that Storage refuses leaves the slot as it was and the call returns the
\* rows it read; a removal that Storage refuses leaves the slot as it was
\* and the import still succeeds.
C5_CacheFailsSoft ==
  [][/\ upd'.ret.kind # "thrown"
     /\ \A p \in Callers :
          /\ call'[p].data.kind # "thrown"
          /\ call'[p].price.kind # "thrown"
          /\ Starts(p) /\ "getItem" \in failing
               => /\ ~call'[p].cached.hit
                  /\ localStorage' = localStorage
                  /\ call'[p].pc = IF supabase THEN "reading" ELSE "idle"
          /\ Resumes(p) /\ call[p].resp.kind = "ok" /\ "setItem" \in failing
               => /\ localStorage' = localStorage
                  /\ call'[p].data = Value(call[p].resp.rows, "backend")
     /\ UpdReturns /\ upd.pc = "inserting" /\ upd'.resp = "ok"
          /\ "removeItem" \in failing
          => /\ localStorage' = localStorage
             /\ upd'.ret = Result(TRUE, Len(upd.rows), <<>>)
    ]_vars

\* with Storage denied, a call has returned the rows it read from the
\* backend and an import has succeeded, the old entry still in the slot
C5_Witness ==
  /\ failing = {"getItem", "setItem", "removeItem"}
  /\ localStorage # <<>>
  /\ upd.pc = "idle" /\ upd.ret.kind = "value" /\ upd.ret.success
  /\ EntryRows # table
  /\ \E p \in Callers :
       /\ Returned(call[p])
       /\ call[p].data = Value(table, "backend")

\* the table holds the rows of the batch and nothing else: as many rows, and
\* each row of the batch is there with every field it carries
HoldsExactly(t, rows) ==
  /\ Len(t) = Len(rows)
  /\ \A i \in 1..Len(rows) :
       \E j \in 1..Len(t) :
         /\ (DOMAIN rows[i]) \subseteq DOMAIN t[j]
         /\ \A k \in DOMAIN rows[i] : t[j][k] = rows[i][k]

\* C6: whenever updatePricingData has returned success, the table holds the
\* accepted rows of the upload and none of the rows it held before, and
\* imported is the number of accepted rows.
C6_TableReplaced ==
  upd.pc = "idle" /\ upd.ret.kind = "value" /\ upd.ret.success
    => /\ upd.ret.imported = Len(upd.rows)
       /\ HoldsExactly(table, upd.rows)

\* C7: updatePricingData never throws. When the client is missing, when a
\* request throws and when the insert answers with an error, it returns
\* success false, imported 0 and one message; and no step of a call other
\* than a successful return changes the cache.
C7_FailureReported ==
  [][/\ upd'.ret.kind # "thrown"
     /\ UpdStarts /\ ~supabase
          => upd'.pc = "idle"
     /\ (UpdStarts \/ UpdReturns) /\ upd'.pc = "idle"
          /\ (~supabase \/ upd'.resp \in {"error", "throw"})
          => /\ upd'.ret.kind = "value"
             /\ ~upd'.ret.success
             /\ upd'.ret.imported = 0
             /\ Len(upd'.ret.errors) = 1
     /\ upd' # upd /\ ~(upd'.pc = "idle" /\ upd'.ret.success)
          => localStorage' = localStorage
    ]_vars

\* an import has failed on the error of its insert, and the cache entry
\* stored before is still there
C7_Witness ==
  /\ upd.pc = "idle"
  /\ upd.resp = "error"
  /\ upd.ret = Result(FALSE, 0, <<"insert error">>)
  /\ localStorage # <<>>
  /\ failing = {}

TextLines == split(trim(csvData), "\n")
TextHeaders == split(TextLines[1], ",")

\* the text of the cell of `line` under the column called name, trimmed;
\* Undefined when there is no such column or the line is too short. Of two
\* columns with one name the later one counts.
CellOf(line, name) ==
  LET cols  == {i \in 1..Len(TextHeaders) : TextHeaders[i] = name}
      cells == split(line, ",")
  IN  IF cols = {} THEN Undefined
      ELSE LET last == CHOOSE i \in cols : \A j \in cols : j <= i
           IN  IF last > Len(cells) THEN Undefined ELSE trim(cells[last])

\* size, level and customer type of the line are all non-empty
KeysGiven(line) ==
  \A name \in {sizeCol, levelCol, customerTypeCol} :
    CellOf(line, name) \notin {Undefined, <<>>}

\* the data lines with their keys given, in order
KeptLines ==
  SelectSeq(SubSeq(TextLines, 2, Len(TextLines)), KeysGiven)

\* C9: the parse accepts exactly the data lines whose size, level and
\* customer type are non-empty after trimming, in the order of the text;
\* each accepted line gives one row, whatever the other lines are, and the
\* others are dropped without any error.
C9_AcceptedLines ==
  parsed.done
    => /\ Len(parsed.rows) = Len(KeptLines)
       /\ \A i \in 1..Len(KeptLines) :
            /\ parsed.rows[i] = LineRow(TextHeaders, KeptLines[i])
            /\ \A name \in {sizeCol, levelCol, customerTypeCol} :
                 parsed.rows[i][name] = CellOf(KeptLines[i], name)

\* a text whose first data line has no size and whose second is complete
\* has given the one row of the second line
C9_Witness ==
  /\ parsed.done
  /\ csvData = Text(HeaderFull, <<LineNoSize, LineGood>>, LF)
  /\ Len(parsed.rows) = 1
  /\ parsed.rows[1][idCol] = 7

\* text is a whole number: an optional minus sign and digits, nothing else
IsInteger(text) ==
  LET digits == IF text # <<>> /\ Head(text) = "-" THEN Tail(text) ELSE text
  IN  /\ text # Undefined
      /\ digits # <<>>
      /\ \A i \in 1..Len(digits) : IsDigit(digits[i])

\* the number a whole-number text stands for
IntegerOf(text) ==
  IF Head(text) = "-" THEN 0 - digitsValue(Tail(text), 0)
  ELSE digitsValue(text, 0)

\* C10: every accepted row has all six price fields, each an integer: the
\* number of its cell when the cell is a whole number, 0 when the column is
\* missing or the cell is not a whole number. Its id is the number of the id
\* cell when that is a whole number, and absent otherwise.
C10_PriceFields ==
  parsed.done /\ Len(parsed.rows) = Len(KeptLines)
    => \A i \in 1..Len(KeptLines) :
         LET row  == parsed.rows[i]
             line == KeptLines[i]
         IN  /\ \A k \in PriceColumns :
                  /\ k \in DOMAIN row
                  /\ row[k] \in Int
                  /\ row[k] = IF IsInteger(CellOf(line, k))
                              THEN IntegerOf(CellOf(line, k)) ELSE 0
             /\ IF IsInteger(CellOf(line, idCol))
                THEN idCol \in DOMAIN row
                       /\ row[idCol] = IntegerOf(CellOf(line, idCol))
                ELSE idCol \notin DOMAIN row

(***************************************************************************)
(* Properties of the export, under SpecExport                              *)
(***************************************************************************)
\* the value of a price field, a missing one counting as 0
PriceOrZero(row, name) == IF name \in DOMAIN row THEN row[name] ELSE 0

\* two rows agree on size, level, customer type and the six prices
SamePricing(r1, r2) ==
  /\ \A name \in {sizeCol, levelCol, customerTypeCol} :
       /\ name \in DOMAIN r1 <=> name \in DOMAIN r2
       /\ name \in DOMAIN r1 => r1[name] = r2[name]
  /\ \A name \in PriceColumns : PriceOrZero(r1, name) = PriceOrZero(r2, name)

\* C11: the parse of the text exportToCSV wrote for a table gives as many
\* rows as the table has, and row for row the same size, level, customer
\* type and six prices (a missing price counting as 0, ids left aside).
C11_RoundTrip ==
  parsed.done
    => /\ Len(parsed.rows) = Len(table)
       /\ \A i \in 1..Len(table) : SamePricing(parsed.rows[i], table[i])

\* the ten column names in the order of the export
ExportOrder ==
  <<sizeCol, levelCol, customerTypeCol, oneMonth, twoMonths, threeMonths,
    sixMonths, oneYear, oneDay, idCol>>

\* what the export is to write for the field `name` of a row: the text of a
\* text field, the number of a price and 0 for a missing one, the number of
\* the id and nothing for a missing one (nor for an id of 0)
Written(row, name) ==
  IF name \in PriceColumns
  THEN IF name \in DOMAIN row THEN NumberText(row[name]) ELSE <<"0">>
  ELSE IF name = idCol
  THEN IF name \in DOMAIN row /\ row[name] # 0 THEN NumberText(row[name])
       ELSE <<>>
  ELSE IF name \in DOMAIN row THEN row[name] ELSE <<>>

Done == job.pc = "idle" /\ job.ret.kind # "none"

\* the call has returned its list, alone or in a quote
Succeeded == Done /\ job.ret.kind \in {"list", "quote"}

\* daily mode with an end date, package mode with a package
DailyMode(a)   == a.pricingMode = "daily" /\ a.endDate.given
PackageMode(a) == a.pricingMode = "package" /\ a.packageOption.given

\* the price of the first row of rows with the triple of q, 0 without one
FirstPrice(rows, q) ==
  IF Places(rows, q) = {} THEN 0
  ELSE LET first == CHOOSE i \in Places(rows, q) :
                      \A j \in Places(rows, q) : i <= j
       IN  IF q.pricingKey \in DOMAIN rows[first]
           THEN rows[first][q.pricingKey] ELSE 0

\* the prices a lookup for the billboard may resolve to: from the table and
\* from the fallback data
Resolved(billboard, customerType, key) ==
  {FirstPrice(rows, Query(billboard.size, billboard.level, customerType, key)) :
     rows \in {table, getFallbackData}}

\* the calculations made so far and those returned
Made == job.calculations \o job.ret.calculations

\* C13: a call in daily mode without an end date, or in package mode
\* without a package, ends by throwing, whatever the list of billboards,
\* and returns no list.
C13_FailsFast ==
  Done /\ ~DailyMode(job.args) /\ ~PackageMode(job.args)
    => job.ret.kind = "thrown" /\ job.ret.calculations = <<>>

\* C14: the list returned has the length of the list of billboards, and its
\* i-th calculation is the calculation of the i-th billboard.
C14_OrderKept ==
  Succeeded
    => /\ Len(job.ret.calculations) = Len(job.args.billboards)
       /\ \A i \in 1..Len(job.args.billboards) :
            LET a == job.args
                b == a.billboards[i]
            IN  /\ job.ret.calculations[i].billboard = b
                /\ \E rows \in {table, getFallbackData} :
                     job.ret.calculations[i] =
                       IF DailyMode(a)
                       THEN calculateDailyPrice(b, a.customerType, a.startDate,
                                                a.endDate,
                                                a.includeInstallation, rows)
                       ELSE calculatePackagePrice(b, a.customerType,
                                                  a.packageOption,
                                                  a.includeInstallation, rows)

\* a list of two different billboards has been calculated, in their order
C14_Witness ==
  /\ Succeeded
  /\ job.ret.kind = "list"
  /\ Len(job.args.billboards) = 2
  /\ job.args.billboards[1].id = "b2" /\ job.args.billboards[2].id = "b1"
  /\ job.ret.calculations[1].billboard.id = "b2"
  /\ job.ret.calculations[2].billboard.id = "b1"

\* C15: in daily mode the days of a calculation are the whole days from
\* start to end, a begun day counting as whole, plus one: 1 for start = end
\* and 7 for an end six days after the start; the price of a day is the
\* one-day price resolved for the billboard, and the subtotal is that price
\* times the days.
C15_DailyDays ==
  DailyMode(job.args)
    => \A i \in 1..Len(Made) :
         LET a    == job.args
             c    == Made[i]
             diff == (a.endDate.day * 24 + a.endDate.hour)
                       - (a.startDate.day * 24 + a.startDate.hour)
         IN  /\ 24 * (c.totalDays - 1) >= diff
             /\ 24 * (c.totalDays - 2) < diff
             /\ a.endDate = a.startDate => c.totalDays = 1
             /\ a.endDate = DateText(a.startDate.day + 6, a.startDate.hour)
                  => c.totalDays = 7
             /\ c.dailyPrice \in Resolved(c.billboard, a.customerType, oneDay)
             /\ c.subtotal = c.dailyPrice * c.totalDays

\* seven days at the one-day price of 800 have been calculated
C15_Witness ==
  /\ Succeeded
  /\ DailyMode(job.args)
  /\ job.args.endDate = DateText(6, 0)
  /\ job.args.startDate = DateText(0, 0)
  /\ \E i \in 1..Len(job.ret.calculations) :
       /\ job.ret.calculations[i].totalDays = 7
       /\ job.ret.calculations[i].dailyPrice = 800
       /\ job.ret.calculations[i].subtotal = 5600

\* C16: in every calculation the total is the subtotal plus the
\* installation price, which is 0 when installation is not asked for and
\* the installation fee of the billboard's size and municipality when it is.
C16_TotalIsSum ==
  \A i \in 1..Len(Made) :
    LET c == Made[i]
    IN  /\ c.total = c.subtotal + c.installationPrice
        /\ c.installationPrice =
             IF job.args.includeInstallation
             THEN getInstallationPrice(c.billboard.size, c.billboard.municipality)
             ELSE 0

\* a package has been calculated with installation: 24000 and the fee of
\* 1650
C16_Witness ==
  /\ Succeeded
  /\ job.args.includeInstallation
  /\ \E i \in 1..Len(job.ret.calculations) :
       /\ job.ret.calculations[i].subtotal = 24000
       /\ job.ret.calculations[i].installationPrice = 1650
       /\ job.ret.calculations[i].total = 25650

\* C17: in package mode the subtotal and the base price of a calculation
\* are the package price resolved for the billboard, the days are the
\* duration of the package, and the price of a day is the package price
\* divided by the duration, rounded to the nearest whole number (a half
\* upwards): 800 for 24000 and 30 days.
C17_PackagePrice ==
  PackageMode(job.args) /\ ~DailyMode(job.args)
    => \A i \in 1..Len(Made) :
         LET c   == Made[i]
             opt == job.args.packageOption
         IN  /\ c.basePrice \in Resolved(c.billboard, job.args.customerType,
                                         opt.key)
             /\ c.subtotal = c.basePrice
             /\ c.totalDays = opt.duration
             /\ 2 * opt.duration * c.dailyPrice <= 2 * c.basePrice + opt.duration
             /\ 2 * c.basePrice + opt.duration
                  < 2 * opt.duration * (c.dailyPrice + 1)
             /\ c.basePrice = 24000 /\ opt.duration = 30 => c.dailyPrice = 800

\* the package of 180 days at 21000 has been calculated, its price of a day
\* rounded up to 117
C17_Witness ==
  /\ Succeeded
  /\ PackageMode(job.args) /\ ~DailyMode(job.args)
  /\ \E i \in 1..Len(job.ret.calculations) :
       LET c == job.ret.calculations[i]
       IN  /\ c.basePrice = 21000
           /\ c.totalDays = 180
           /\ c.dailyPrice = 117

\* the sum of the field of the lines of a quote
RECURSIVE Total(_, _)
Total(lines, field) ==
  IF lines = <<>> THEN 0 ELSE lines[1][field] + Total(Tail(lines), field)

\* C19: in every quote returned the subtotal is the sum of the subtotals of
\* its lines, the total installation the sum of their installation prices,
\* and the grand total the sum of the two.
C19_QuoteTotals ==
  Done /\ job.ret.kind = "quote"
    => LET q == job.ret.quote
       IN  /\ q.billboards = job.ret.calculations
           /\ q.subtotal = Total(q.billboards, "subtotal")
           /\ q.totalInstallation = Total(q.billboards, "installationPrice")
           /\ q.grandTotal = q.subtotal + q.totalInstallation

\* a quote of two lines with installation has been returned
C19_Witness ==
  /\ Done
  /\ job.ret.kind = "quote"
  /\ Len(job.ret.quote.billboards) = 2
  /\ job.ret.quote.subtotal = 24000 + 21000
  /\ job.ret.quote.totalInstallation = 1650 + 1080
  /\ job.ret.quote.grandTotal = 47730

\* C20: the end date of a quote in package mode is the date
\* package.duration days after the start date, whatever end date was given;
\* in daily mode it is the end date given.
C20_EndDate ==
  Done /\ job.ret.kind = "quote"
    => job.ret.quote.endDate =
         IF job.args.pricingMode = "package" /\ job.args.packageOption.given
         THEN DateText(job.args.startDate.day + job.args.packageOption.duration,
                       0)
         ELSE job.args.endDate

(***************************************************************************)
(* Property of the installation fee, under SpecFee                         *)
(***************************************************************************)
\* the base fees and the multipliers (in tenths) the fee is to be taken from
BaseFees ==
  (s13x5 :> 1500) @@ (s12x4 :> 1200) @@ (<<"1", "0", "x", "4">> :> 1000) @@
  (<<"8", "x", "3">> :> 800) @@ (<<"6", "x", "3">> :> 600) @@
  (<<"4", "x", "3">> :> 500)

Multipliers ==
  (<<"M", "i", "s">> :> 10) @@ (Tripoli :> 11) @@ (<<"B", "e", "n">> :> 12) @@
  (Zliten :> 9) @@ (<<"A", "b", "u">> :> 11)

C21_ValidUntil ==
  Done /\ job.ret.kind = "quote"
    => job.ret.quote.validUntil = DaysAfter(job.ret.quote.createdAt, 30)

(***************************************************************************)
(* Property of the ids of quotes, under SpecCaller                         *)
(***************************************************************************)
\* the quotes returned so far: those held and the one just returned
Quotes ==
  held \o (IF Done /\ job.ret.kind = "quote" THEN <<job.ret.quote>> ELSE <<>>)

\* C22: any two quotes returned by generateQuote have different ids.
C22_UniqueIds ==
  \A i, j \in 1..Len(Quotes) : i # j => Quotes[i].id # Quotes[j].id

(***************************************************************************)
(* Property of a returned quote and its caller, under SpecSnapshot         *)
(***************************************************************************)
\* C23: once a quote is returned, no change the caller makes to the array
\* of billboards it passed, or to an object of that array, changes the
\* quote or a line of it.
C23_Snapshot ==
  [][Done /\ job.ret.kind = "quote" /\ job'.pc = "idle"
       /\ job'.ret.kind = "quote"
     => job'.ret.quote = job.ret.quote]_vars

(***************************************************************************)
(* Properties of the campaign statistics, under SpecStats                  *)
(***************************************************************************)
\* the map has a key for each value the field takes among the assets of
\* the calculations, and under it the number of calculations with the value
Counts(map, calculations, field) ==
  /\ DOMAIN map =
       {calculations[i].billboard[field] : i \in 1..Len(calculations)}
  /\ \A key \in DOMAIN map :
       map[key] = Cardinality({i \in 1..Len(calculations) :
                                 calculations[i].billboard[field] = key})

C25_AverageDailyPrice ==
  stats.done
    => LET cs == stats.calculations
           v  == stats.value
           n  == Len(cs)
           r  == v.averageDailyPrice
       IN  IF n = 0
           THEN /\ r = 0
                /\ v.totalBillboards = 0
                /\ DOMAIN v.sizeBreakdown = {}
                /\ DOMAIN v.municipalityBreakdown = {}
                /\ DOMAIN v.levelBreakdown = {}
           ELSE /\ 2 * n * r <= 2 * Total(cs, "dailyPrice") + n
                /\ 2 * Total(cs, "dailyPrice") + n < 2 * n * (r + 1)

\* the average of the daily prices 116 and 117 has been returned: 117
C25_Witness ==
  /\ stats.done
  /\ Len(stats.calculations) = 2
  /\ stats.calculations[1].dailyPrice = 116
  /\ stats.calculations[2].dailyPrice = 117
  /\ stats.value.averageDailyPrice = 117

(***************************************************************************)
(* Properties of lookups and imports running together, under Spec          *)
(***************************************************************************)
\* the last call of updatePricingData has returned success, and none is
\* under way
Imported == upd.pc = "idle" /\ upd.ret.kind = "value" /\ upd.ret.success

\* C26: after updatePricingData has returned success, a call of
\* getAllPricingData that starts and is answered at once, without a read of
\* the backend, returns the rows the table holds since the import. (A call
\* that goes on to read the backend returns the rows it reads.)
C26_ImportSeen ==
  [][\A p \in Callers :
       Imported /\ Starts(p) /\ Returned(call'[p])
         => call'[p].data.rows = table]_vars

(***************************************************************************)
(* Property of the lookups of one batch, under SpecQuote                   *)
(***************************************************************************)
\* the calculation of the billboard for the arguments, priced from the rows
LineFrom(a, billboard, rows) ==
  IF DailyMode(a)
  THEN calculateDailyPrice(billboard, a.customerType, a.startDate, a.endDate,
                           a.includeInstallation, rows)
  ELSE calculatePackagePrice(billboard, a.customerType, a.packageOption,
                             a.includeInstallation, rows)

\* C27: the calculations of one batch are all priced from one price table:
\* there is one table, the rows of the backend or the fallback rows, from
\* which every calculation returned follows.
C27_OneSnapshot ==
  Succeeded
    => \E rows \in {table, getFallbackData} :
         \A i \in 1..Len(job.ret.calculations) :
           job.ret.calculations[i] =
             LineFrom(job.args, job.args.billboards[i], rows)

(***************************************************************************)
(* Property of the contents of the cache, under SpecFind                   *)
(***************************************************************************)
\* C28: the slot of the cache changes in two ways only. It is emptied; or a
\* call that has read the backend with success stores the rows it read
\* under the time at which it does so. A call whose read failed leaves the
\* slot as it was, and the fallback rows are never stored.
C28_CacheFromBackend ==
  [][/\ localStorage' # localStorage /\ localStorage' # <<>>
          => \E p \in Callers :
               /\ Resumes(p)
               /\ call[p].resp.kind = "ok"
               /\ JSONparse(localStorage'[1]).data = call[p].resp.rows
               /\ JSONparse(localStorage'[1]).timestamp = now
     /\ \A p \in Callers :
          Resumes(p) /\ call[p].resp.kind # "ok"
            => localStorage' = localStorage
     /\ localStorage' # <<>>
          => JSONparse(localStorage'[1]).data # getFallbackData]_vars

\* a call whose read failed has returned the fallback rows while the slot
\* holds the rows an earlier call read from the backend
C28_Witness ==
  /\ \E p \in Callers :
       /\ Returned(call[p])
       /\ call[p].resp.kind = "error"
       /\ call[p].data.src = "fallback"
  /\ localStorage # <<>>
  /\ EntryRows = table
  /\ now > CACHE_DURATION

(***************************************************************************)
(* Property of a failed import, under Spec                                 *)
(***************************************************************************)
\* C29: whenever updatePricingData has returned failure, the table holds
\* the rows it held when the call was made.
C29_FailureKeepsTable ==
  upd.pc = "idle" /\ upd.ret.kind = "value" /\ ~upd.ret.success
    => table = upd.before

(***************************************************************************)
(* Property of the calculator component, under SpecCalculator              *)
(***************************************************************************)
\* C30: once no call of calculatePrices is under way, and the latest inputs
\* were such that a calculation was made for them, the calculations
\* displayed are those computed from the latest inputs.
C30_LatestShown ==
  ui.flights = {} /\ ui.complete => ui.shown = ui.version

=============================================================================
